---------------------------- MODULE Spec2Model ----------------------------
(***************************************************************************)
(* AI Logo Animator: the App component (workflow controller, credential    *)
(* gate) and the geminiService generation client, as a state machine.      *)
(* One action per event-loop turn: a user event handler run up to its      *)
(* first await, or the continuation that runs when an awaited promise      *)
(* settles.                                                                *)
(***************************************************************************)
EXTENDS Integers, Sequences, FiniteSets, TLC

(* ------------------------------ bounds -------------------------------- *)
\* polls of one video operation before the service must report done, in
\* the whole workflow and when a single run of the client is followed
MaxPolls == 1
MaxClientPolls == 8
\* file reads (handleImageUpload) that may be pending at the same time
MaxUploads == 1
\* pending runs of handleGenerateLogo, and of handleGenerateVideo
MaxTasks == 2
\* pending runs of handleSelectKey
MaxSelects == 1

(* --------------------------- JavaScript values ------------------------ *)
\* a string is a sequence of tokens; null and undefined are distinct values
Null == [tag |-> "null"]
Undefined == [tag |-> "undefined"]
Str(s) == [tag |-> "string", val |-> s]
IsStr(v) == v.tag = "string"
\* JavaScript truthiness of a string | null | undefined
Truthy(v) == IsStr(v) /\ v.val # << >>

\* String.prototype.includes on token sequences
Includes(s, needle) ==
    \E i \in 0..(Len(s) - Len(needle)) :
        SubSeq(s, i + 1, i + Len(needle)) = needle

\* String.prototype.split(sep): the array of the pieces between separators
RECURSIVE Split(_, _)
Split(s, sep) ==
    IF \A i \in 1..Len(s) : s[i] # sep
    THEN << Str(s) >>
    ELSE LET i == CHOOSE k \in 1..Len(s) :
                      s[k] = sep /\ \A j \in 1..(k - 1) : s[j] # sep
         IN  << Str(SubSeq(s, 1, i - 1)) >>
                 \o Split(SubSeq(s, i + 1, Len(s)), sep)

\* array[i] with JavaScript's 0-based index; undefined past the end
At(arr, i) == IF i + 1 \in 1..Len(arr) THEN arr[i + 1] ELSE Undefined

(* ------------------------------ inputs -------------------------------- *)
\* values a rejected promise can carry: Error objects with a message, or
\* something that is not an Error
ErrorObj(msg) == [isError |-> TRUE, message |-> msg]
NotFoundMsg == << "Requested entity was not found" >>
Thrown ==
    { ErrorObj(<< "404 ", "Requested entity was not found", "." >>),
      [isError |-> FALSE, message |-> << >>] }

\* a File, by what FileReader.readAsDataURL makes of it: a data URL
\* (header, comma, base64 body) or a read error
Files ==
    { [readable |-> TRUE,  dataURL |-> << "data:image/png;base64", ",", "QQ==" >>],
      [readable |-> TRUE,  dataURL |-> << "data:image/png;base64", "," >>],
      [readable |-> FALSE, dataURL |-> << >>] }
\* event.target.files?.[0]: a file, or undefined (the chooser was cancelled)
FileChoices == Files \cup { Undefined }

\* responses of ai.models.generateImages
Image(bytes) == [image |-> [imageBytes |-> bytes]]
Array(items) == [tag |-> "array", items |-> items]
ImageResponses ==
    { [generatedImages |-> Undefined],
      [generatedImages |-> Array(<< >>)],
      [generatedImages |-> Array(<< Image(Str(<< "Rw==" >>)) >>)],
      [generatedImages |-> Array(<< Image(Str(<< >>)) >>)],
      [generatedImages |-> Array(<< Image(Str(<< "Rw==" >>)), Image(Str(<< >>)) >>)] }

\* states of a video operation as the service reports them
Operations ==
    { [done |-> FALSE, uri |-> Undefined],
      [done |-> TRUE,  uri |-> Undefined],
      [done |-> TRUE,  uri |-> Str(<< "https://video/1?alt=media" >>)] }

\* responses of fetch(downloadLink)
FetchResponses ==
    { [ok |-> TRUE,  statusText |-> << "OK" >>],
      [ok |-> FALSE, statusText |-> << "Not Found" >>] }

Descriptions == { "", "fox" }
Prompts == { "", "wink" }
AspectRatios == { "16:9", "9:16" }

(* ---------------------------- pure functions -------------------------- *)
\* geminiService.ts fileToBase64: the promise's outcome for a file
fileToBase64(file) ==
    IF file.readable
    THEN [ok |-> TRUE, value |-> At(Split(file.dataURL, ","), 1)]
    ELSE [ok |-> FALSE, thrown |-> [isError |-> FALSE, message |-> << >>]]

\* geminiService.ts generateLogoImage: the promise's outcome for a response
generateLogoImage(response) ==
    IF /\ response.generatedImages # Undefined
       /\ Len(response.generatedImages.items) > 0
    THEN [ok |-> TRUE,
          value |-> response.generatedImages.items[1].image.imageBytes]
    ELSE [ok |-> FALSE, thrown |-> ErrorObj(<< "Image generation failed." >>)]

loadingMessages ==
    << "Warming up the animation engine...",
       "Teaching pixels to dance...",
       "Composing a visual symphony...",
       "Rendering the final masterpiece...",
       "Almost there, adding the final sparkle...",
       "Finalizing the sequence...",
       "Polishing the frames..." >>
FetchingMessage == "Fetching generated video..."

NextMessageIndex_ShortCycle(messageIndex) ==
    (messageIndex + 1) % (Len(loadingMessages) - 1)
\* messageIndex = (messageIndex + 1) % loadingMessages.length
NextMessageIndex(messageIndex) == (messageIndex + 1) % Len(loadingMessages)

VideoConfig_Landscape(aspectRatio) ==
    [numberOfVideos |-> 1, resolution |-> "720p", aspectRatio |-> "16:9"]
\* the config of the generateVideos request
VideoConfig(aspectRatio) ==
    [numberOfVideos |-> 1, resolution |-> "720p", aspectRatio |-> aspectRatio]

\* URL.createObjectURL(videoBlob): a fresh non-empty URL that refers to the blob
ObjectURL(blob) == [tag |-> "string", val |-> << "blob:" >>, blob |-> blob]

(* ------------------------------- state -------------------------------- *)
VARIABLES
    \* React state of App
    apiKeySelected, logoDescription, animationPrompt, aspectRatio,
    logoImageBase64, generatedVideoUrl, isGeneratingLogo, isGeneratingVideo,
    videoStatus, error,
    \* the host and the promises that are pending
    aistudio,       \* whether window.aistudio exists
    checkPending,   \* checkApiKey awaits hasSelectedApiKey()
    selectPending,  \* runs of handleSelectKey that await openSelectKey()
    uploads,        \* runs of handleImageUpload that await fileToBase64
    logoTasks,      \* runs of handleGenerateLogo that await generateLogoImage
    videoTasks,     \* runs of handleGenerateVideo inside generateAnimatedVideo
    pollBudget,     \* polls after which the video service reports done
    \* observation of the last step
    \* observation of the workflow: the last step of a workflow handler
    \* (upload, logo, video) or of one of their continuations
    last,           \* the step, with its input and result
    out             \* status callbacks and requests it made, in order

react == << apiKeySelected, logoDescription, animationPrompt, aspectRatio,
            logoImageBase64, generatedVideoUrl, isGeneratingLogo,
            isGeneratingVideo, videoStatus, error >>
pending == << aistudio, checkPending, selectPending, uploads, logoTasks,
              videoTasks, pollBudget >>
vars == << react, pending, last, out >>

\* a step as the observer records it: the handler or continuation that ran
\* and its result
Step(op, result) ==
    [op |-> op, result |-> result, hadVideo |-> FALSE, hadError |-> FALSE]
\* a handler that refused its input
Refused(op) == Step(op, "invalid")
\* a handler that accepted its input, and whether it found a video and an
\* error to reset
Accepted(op) ==
    [op |-> op, result |-> "started",
     hadVideo |-> Truthy(generatedVideoUrl), hadError |-> error # Null]
Status(msg) == [ev |-> "status", what |-> msg]
Request(what, arg) == [ev |-> "request", what |-> what, arg |-> arg]

\* what a step leaves for the observer
Observe(step, events) ==
    /\ last' = step
    /\ out' = events

\* how an awaited promise settles
Resolved(v) == [ok |-> TRUE, value |-> v]
Rejected(t) == [ok |-> FALSE, thrown |-> t]

Remove(seq, i) == SubSeq(seq, 1, i - 1) \o SubSeq(seq, i + 1, Len(seq))

\* the state after the first render and the mount effect (checkApiKey)
Init ==
    /\ aistudio \in BOOLEAN
    /\ apiKeySelected = ~aistudio
    /\ checkPending = aistudio
    /\ logoDescription = ""
    /\ animationPrompt = ""
    /\ aspectRatio = "16:9"
    /\ logoImageBase64 = Null
    /\ generatedVideoUrl = Null
    /\ isGeneratingLogo = FALSE
    /\ isGeneratingVideo = FALSE
    /\ videoStatus = ""
    /\ error = Null
    /\ selectPending = 0
    /\ uploads = << >>
    /\ logoTasks = << >>
    /\ videoTasks = << >>
    /\ pollBudget = MaxPolls
    /\ last = Step("mount", "rendered")
    /\ out = << >>

(* --------------------------- credential gate -------------------------- *)
WorkflowRendered_Always == TRUE
\* App renders the workflow only when the key is selected, else the gate
WorkflowRendered == apiKeySelected

\* checkApiKey resumes after hasSelectedApiKey() resolved
checkApiKeyResumes(hasKey) ==
    /\ checkPending
    /\ checkPending' = FALSE
    /\ apiKeySelected' = hasKey
    /\ UNCHANGED << logoDescription, animationPrompt, aspectRatio,
                    logoImageBase64, generatedVideoUrl, isGeneratingLogo,
                    isGeneratingVideo, videoStatus, error >>
    /\ UNCHANGED << aistudio, selectPending, uploads, logoTasks, videoTasks, pollBudget >>
    /\ UNCHANGED << last, out >>

\* the gate's button: handleSelectKey up to its await
handleSelectKey ==
    /\ ~WorkflowRendered
    /\ selectPending < MaxSelects
    \* without window.aistudio the call throws and the handler's promise rejects
    /\ selectPending' = IF aistudio THEN selectPending + 1 ELSE selectPending
    /\ UNCHANGED << react, aistudio, checkPending, uploads, logoTasks,
                    videoTasks, pollBudget >>
    /\ UNCHANGED << last, out >>

\* handleSelectKey resumes after openSelectKey() settled
handleSelectKeyResumes(resolved) ==
    /\ selectPending > 0
    /\ selectPending' = selectPending - 1
    /\ apiKeySelected' = IF resolved THEN TRUE ELSE apiKeySelected
    /\ UNCHANGED << logoDescription, animationPrompt, aspectRatio,
                    logoImageBase64, generatedVideoUrl, isGeneratingLogo,
                    isGeneratingVideo, videoStatus, error >>
    /\ UNCHANGED << aistudio, checkPending, uploads, logoTasks, videoTasks, pollBudget >>
    /\ UNCHANGED << last, out >>

(* ------------------------------ text inputs --------------------------- *)
setLogoDescription(value) ==
    /\ WorkflowRendered
    /\ logoDescription' = value
    /\ UNCHANGED << apiKeySelected, animationPrompt, aspectRatio,
                    logoImageBase64, generatedVideoUrl, isGeneratingLogo,
                    isGeneratingVideo, videoStatus, error >>
    /\ UNCHANGED pending
    /\ UNCHANGED << last, out >>

\* the textarea is disabled while there is no logo
setAnimationPrompt(value) ==
    /\ WorkflowRendered
    /\ Truthy(logoImageBase64)
    /\ animationPrompt' = value
    /\ UNCHANGED << apiKeySelected, logoDescription, aspectRatio,
                    logoImageBase64, generatedVideoUrl, isGeneratingLogo,
                    isGeneratingVideo, videoStatus, error >>
    /\ UNCHANGED pending
    /\ UNCHANGED << last, out >>

setAspectRatio(value) ==
    /\ WorkflowRendered
    /\ aspectRatio' = value
    /\ UNCHANGED << apiKeySelected, logoDescription, animationPrompt,
                    logoImageBase64, generatedVideoUrl, isGeneratingLogo,
                    isGeneratingVideo, videoStatus, error >>
    /\ UNCHANGED pending
    /\ UNCHANGED << last, out >>

(* ------------------------------- upload ------------------------------- *)
\* what handleImageUpload sets generatedVideoUrl to for a selected file
UploadResetsVideo_Forgotten == generatedVideoUrl
\* setGeneratedVideoUrl(null)
UploadResetsVideo == Null

\* the file input's onChange: handleImageUpload up to its await.  The input
\* has no disabled attribute.
handleImageUpload(file) ==
    /\ WorkflowRendered
    /\ IF file # Undefined
       THEN /\ Len(uploads) < MaxUploads
            /\ error' = Null
            /\ generatedVideoUrl' = UploadResetsVideo
            /\ uploads' = Append(uploads, [file |-> file])
       ELSE UNCHANGED << error, generatedVideoUrl, uploads >>
    /\ UNCHANGED << apiKeySelected, logoDescription, animationPrompt,
                    aspectRatio, logoImageBase64, isGeneratingLogo,
                    isGeneratingVideo, videoStatus >>
    /\ UNCHANGED << aistudio, checkPending, selectPending, logoTasks,
                    videoTasks, pollBudget >>
    /\ Observe(IF file # Undefined
               THEN Accepted("handleImageUpload")
               ELSE Step("handleImageUpload", "ignored"),
               << >>)

\* handleImageUpload resumes after fileToBase64(file) settled
handleImageUploadResumes(i) ==
    LET task == uploads[i]
        read == fileToBase64(task.file)
    IN  /\ uploads' = Remove(uploads, i)
        /\ IF read.ok
           THEN /\ logoImageBase64' = read.value
                /\ UNCHANGED error
           ELSE /\ error' = Str(<< "Failed to read image file." >>)
                /\ UNCHANGED logoImageBase64
        /\ UNCHANGED << apiKeySelected, logoDescription, animationPrompt,
                        aspectRatio, generatedVideoUrl, isGeneratingLogo,
                        isGeneratingVideo, videoStatus >>
        /\ UNCHANGED << aistudio, checkPending, selectPending, logoTasks,
                        videoTasks, pollBudget >>
        /\ Observe(Step("handleImageUploadResumes",
                        IF read.ok THEN "resolved" ELSE "rejected"), << >>)

(* --------------------------- logo generation -------------------------- *)
\* disabled attribute of the Generate Logo button
GenerateLogoDisabled == isGeneratingLogo \/ isGeneratingVideo

\* if (!logoDescription)
NoDescription == logoDescription = ""

\* handleGenerateLogo up to its await; generateLogoImage issues its request
\* before it suspends
handleGenerateLogo ==
    /\ WorkflowRendered
    /\ ~GenerateLogoDisabled
    /\ IF NoDescription
       THEN /\ error' = Str(<< "Please enter a description for your logo." >>)
            /\ UNCHANGED << isGeneratingLogo, logoImageBase64,
                            generatedVideoUrl, logoTasks >>
            /\ Observe(Refused("handleGenerateLogo"),
                       << >>)
       ELSE /\ Len(logoTasks) < MaxTasks
            /\ error' = Null
            /\ isGeneratingLogo' = TRUE
            /\ logoImageBase64' = Null
            /\ generatedVideoUrl' = Null
            /\ logoTasks' = Append(logoTasks,
                   [prompt |-> logoDescription,
                    started |-> [hadLogo |-> Truthy(logoImageBase64)]])
            /\ Observe(Accepted("handleGenerateLogo"),
                       << Request("generateImages", logoDescription) >>)
    /\ UNCHANGED << apiKeySelected, logoDescription, animationPrompt,
                    aspectRatio, isGeneratingVideo, videoStatus >>
    /\ UNCHANGED << aistudio, checkPending, selectPending, uploads,
                    videoTasks, pollBudget >>

\* what the awaited generateLogoImage can settle with
LogoOutcomes ==
    { generateLogoImage(r) : r \in ImageResponses }
        \cup { Rejected(t) : t \in Thrown }

\* handleGenerateLogo resumes after generateLogoImage settled
handleGenerateLogoResumes(i, outcome) ==
    LET errorMessage == IF outcome.thrown.isError
                        THEN outcome.thrown.message
                        ELSE << "An unknown error occurred." >>
    IN  /\ logoTasks' = Remove(logoTasks, i)
        /\ IF outcome.ok
           THEN /\ logoImageBase64' = outcome.value
                /\ UNCHANGED error
           ELSE /\ error' = Str(<< "Logo generation failed: " >> \o errorMessage)
                /\ UNCHANGED logoImageBase64
        /\ isGeneratingLogo' = FALSE
        /\ UNCHANGED << apiKeySelected, logoDescription, animationPrompt,
                        aspectRatio, generatedVideoUrl, isGeneratingVideo,
                        videoStatus >>
        /\ UNCHANGED << aistudio, checkPending, selectPending, uploads,
                        videoTasks, pollBudget >>
        /\ Observe(Step("handleGenerateLogoResumes",
                        IF outcome.ok THEN "resolved" ELSE "rejected"), << >>)

(* --------------------------- video generation ------------------------- *)
GenerateVideoDisabled_NotWhileBusy == ~Truthy(logoImageBase64)
\* disabled attribute of the Generate Animation button
GenerateVideoDisabled == isGeneratingVideo \/ ~Truthy(logoImageBase64)

IsCredentialError_Exact(errorMessage) == errorMessage = NotFoundMsg
\* errorMessage.includes("Requested entity was not found")
IsCredentialError(errorMessage) == Includes(errorMessage, NotFoundMsg)

FinallyGeneratingVideo_Kept == isGeneratingVideo
\* finally: setIsGeneratingVideo(false)
FinallyGeneratingVideo == FALSE

\* handleGenerateVideo: catch and finally, after generateAnimatedVideo threw
VideoThrows(i, thrown, step, events) ==
    LET errorMessage ==
            IF thrown.isError
            THEN thrown.message
            ELSE << "An unknown error occurred during video generation." >>
    IN  /\ IF IsCredentialError(errorMessage)
           THEN /\ error' = Str(<< "API Key not found or invalid. ",
                                   "Please re-select your API Key." >>)
                /\ apiKeySelected' = FALSE
           ELSE /\ error' = Str(<< "Video generation failed: " >>
                                    \o errorMessage)
                /\ UNCHANGED apiKeySelected
        /\ isGeneratingVideo' = FinallyGeneratingVideo
        /\ videoStatus' = ""
        /\ videoTasks' = Remove(videoTasks, i)
        /\ UNCHANGED << logoDescription, animationPrompt, aspectRatio,
                        logoImageBase64, generatedVideoUrl, isGeneratingLogo >>
        /\ UNCHANGED << aistudio, checkPending, selectPending, uploads,
                        logoTasks, pollBudget >>
        /\ Observe(Step(step, IF IsCredentialError(errorMessage)
                                  THEN "credential" ELSE "rejected"), events)

\* handleGenerateVideo: after generateAnimatedVideo returned, and finally
VideoReturns(i, videoUrl, step, events) ==
    /\ generatedVideoUrl' = videoUrl
    /\ isGeneratingVideo' = FinallyGeneratingVideo
    /\ videoStatus' = ""
    /\ videoTasks' = Remove(videoTasks, i)
    /\ UNCHANGED << apiKeySelected, logoDescription, animationPrompt,
                    aspectRatio, logoImageBase64, isGeneratingLogo, error >>
    /\ UNCHANGED << aistudio, checkPending, selectPending, uploads, logoTasks, pollBudget >>
    /\ Observe(Step(step, "resolved"), events)

\* generateAnimatedVideo suspends again; statuses are the messages it passed
\* to onStatusUpdate (setVideoStatus) in this step
VideoSuspends(i, task, statuses, step, events) ==
    /\ videoTasks' = [videoTasks EXCEPT ![i] =
           [task EXCEPT !.statuses = @ \o statuses]]
    /\ videoStatus' = IF statuses = << >> THEN videoStatus
                      ELSE statuses[Len(statuses)]
    /\ UNCHANGED << apiKeySelected, logoDescription, animationPrompt,
                    aspectRatio, logoImageBase64, generatedVideoUrl,
                    isGeneratingLogo, isGeneratingVideo, error >>
    /\ UNCHANGED << aistudio, checkPending, selectPending, uploads, logoTasks, pollBudget >>
    /\ Observe(Step(step, "suspended"), events)

\* if (!logoImageBase64)
NoLogo == ~Truthy(logoImageBase64)

NoPrompt_Unchecked == FALSE
\* if (!animationPrompt)
NoPrompt == animationPrompt = ""

\* handleGenerateVideo up to the first await inside generateAnimatedVideo
handleGenerateVideo ==
    /\ WorkflowRendered
    /\ ~GenerateVideoDisabled
    /\ IF NoLogo
       THEN /\ error' = Str(<< "Please generate or upload a logo first." >>)
            /\ UNCHANGED << isGeneratingVideo, generatedVideoUrl, videoStatus,
                            videoTasks >>
            /\ Observe(Refused("handleGenerateVideo"),
                       << >>)
       ELSE IF NoPrompt
       THEN /\ error' = Str(<< "Please enter a prompt for the animation." >>)
            /\ UNCHANGED << isGeneratingVideo, generatedVideoUrl, videoStatus,
                            videoTasks >>
            /\ Observe(Refused("handleGenerateVideo"),
                       << >>)
       ELSE /\ Len(videoTasks) < MaxTasks
            /\ error' = Null
            /\ isGeneratingVideo' = TRUE
            /\ generatedVideoUrl' = Null
            /\ videoStatus' = loadingMessages[0 + 1]
            /\ videoTasks' = Append(videoTasks,
                   [imageB64 |-> logoImageBase64, prompt |-> animationPrompt,
                    messageIndex |-> 0,
                    pc |-> "generateVideos", polls |-> 0,
                    statuses |-> << loadingMessages[0 + 1] >>,
                    operation |-> Undefined, downloadLink |-> Undefined,
                    videoResponse |-> Undefined,
                    started |-> [generatedVideoUrl |-> generatedVideoUrl]])
            /\ Observe(Accepted("handleGenerateVideo"),
                       << Status(loadingMessages[0 + 1]),
                          Request("generateVideos",
                                  [image |-> logoImageBase64,
                                   prompt |-> animationPrompt,
                                   config |-> VideoConfig(aspectRatio)]) >>)
    /\ UNCHANGED << apiKeySelected, logoDescription, animationPrompt,
                    aspectRatio, logoImageBase64, isGeneratingLogo >>
    /\ UNCHANGED << aistudio, checkPending, selectPending, uploads, logoTasks, pollBudget >>

LoopContinues_Always(operation) == TRUE
\* while (!operation.done)
LoopContinues(operation) == ~operation.done

\* generateAnimatedVideo with a fresh value of operation: the loop test, and
\* the code after the loop up to the fetch
OperationReceived(i, operation, step) ==
    LET task == [videoTasks[i] EXCEPT !.operation = operation]
    IN  IF LoopContinues(operation)
        THEN VideoSuspends(i, [task EXCEPT !.pc = "setTimeout"], << >>, step,
                           << >>)
        ELSE IF ~Truthy(operation.uri)
        THEN VideoThrows(i,
                 ErrorObj(<< "Video generation operation completed ",
                             "but no video URI was found." >>),
                 step, << >>)
        ELSE VideoSuspends(i,
                 [task EXCEPT !.pc = "fetch", !.downloadLink = operation.uri],
                 << FetchingMessage >>, step,
                 << Status(FetchingMessage),
                    Request("fetch", operation.uri) >>)

\* what an awaited generateVideos / getVideosOperation can settle with: the
\* service reports done at the latest when pollBudget polls were made
OperationOutcomes(task) ==
    { Resolved(o) : o \in { x \in Operations :
                              x.done \/ task.polls < pollBudget } }
        \cup { Rejected(t) : t \in Thrown }

\* generateAnimatedVideo resumes after generateVideos settled
generateVideosSettles(i, outcome) ==
    /\ videoTasks[i].pc = "generateVideos"
    /\ IF outcome.ok
       THEN OperationReceived(i, outcome.value, "generateVideosSettles")
       ELSE VideoThrows(i, outcome.thrown, "generateVideosSettles", << >>)

\* the 10 s timer fires: next message, then the poll request
pollTimerFires(i) ==
    LET task == videoTasks[i]
        messageIndex == NextMessageIndex(task.messageIndex)
    IN  /\ task.pc = "setTimeout"
        /\ VideoSuspends(i,
               [task EXCEPT !.pc = "getVideosOperation",
                            !.messageIndex = messageIndex,
                            !.polls = @ + 1],
               << loadingMessages[messageIndex + 1] >>, "pollTimerFires",
               << Status(loadingMessages[messageIndex + 1]),
                  Request("getVideosOperation", Undefined) >>)

\* generateAnimatedVideo resumes after getVideosOperation settled
getVideosOperationSettles(i, outcome) ==
    /\ videoTasks[i].pc = "getVideosOperation"
    /\ IF outcome.ok
       THEN OperationReceived(i, outcome.value, "getVideosOperationSettles")
       ELSE VideoThrows(i, outcome.thrown, "getVideosOperationSettles", << >>)

FetchOutcomes ==
    { Resolved(r) : r \in FetchResponses } \cup { Rejected(t) : t \in Thrown }

FetchFailed_Ignored(videoResponse) == FALSE
\* if (!videoResponse.ok)
FetchFailed(videoResponse) == ~videoResponse.ok

\* generateAnimatedVideo resumes after fetch settled
fetchSettles(i, outcome) ==
    LET task == videoTasks[i]
    IN  /\ task.pc = "fetch"
        /\ IF ~outcome.ok
           THEN VideoThrows(i, outcome.thrown, "fetchSettles", << >>)
           ELSE IF FetchFailed(outcome.value)
           THEN VideoThrows(i,
                    ErrorObj(<< "Failed to download video: " >>
                                 \o outcome.value.statusText),
                    "fetchSettles", << >>)
           ELSE VideoSuspends(i,
                    [task EXCEPT !.pc = "blob",
                                 !.videoResponse = outcome.value],
                    << >>, "fetchSettles", << >>)

\* the video the service rendered for the request the task submitted
RenderedBlob(task) == [image |-> task.imageB64, prompt |-> task.prompt]

BlobOutcomes(task) ==
    { Resolved(RenderedBlob(task)) } \cup { Rejected(t) : t \in Thrown }

\* generateAnimatedVideo resumes after videoResponse.blob() settled
blobSettles(i, outcome) ==
    /\ videoTasks[i].pc = "blob"
    /\ IF outcome.ok
       THEN VideoReturns(i, ObjectURL(outcome.value), "blobSettles", << >>)
       ELSE VideoThrows(i, outcome.thrown, "blobSettles", << >>)

(* ---------------------------- specification --------------------------- *)
Next ==
    \/ \E hasKey \in BOOLEAN : checkApiKeyResumes(hasKey)
    \/ handleSelectKey
    \/ \E resolved \in BOOLEAN : handleSelectKeyResumes(resolved)
    \/ \E value \in Descriptions : setLogoDescription(value)
    \/ \E value \in Prompts : setAnimationPrompt(value)
    \/ \E value \in AspectRatios : setAspectRatio(value)
    \/ \E file \in FileChoices : handleImageUpload(file)
    \/ \E i \in 1..Len(uploads) : handleImageUploadResumes(i)
    \/ handleGenerateLogo
    \/ \E i \in 1..Len(logoTasks), outcome \in LogoOutcomes :
           handleGenerateLogoResumes(i, outcome)
    \/ handleGenerateVideo
    \/ \E i \in 1..Len(videoTasks) :
           \E outcome \in OperationOutcomes(videoTasks[i]) :
               generateVideosSettles(i, outcome)
    \/ \E i \in 1..Len(videoTasks) : pollTimerFires(i)
    \/ \E i \in 1..Len(videoTasks) :
           \E outcome \in OperationOutcomes(videoTasks[i]) :
               getVideosOperationSettles(i, outcome)
    \/ \E i \in 1..Len(videoTasks), outcome \in FetchOutcomes :
           fetchSettles(i, outcome)
    \/ \E i \in 1..Len(videoTasks) :
           \E outcome \in BlobOutcomes(videoTasks[i]) : blobSettles(i, outcome)

Spec == Init /\ [][Next]_vars

\* the user at the gate keeps pressing its button, and a key selection that
\* the host opened is eventually completed
SpecGateFair ==
    /\ Spec
    /\ WF_vars(handleSelectKey)
    /\ SF_vars(handleSelectKeyResumes(TRUE))

(* ------------------ one run of the generation client ------------------ *)
\* a logo was uploaded, a prompt typed, the key selected; the animation is
\* then run again and again with a video service that may take
\* MaxClientPolls polls
InitClient ==
    /\ aistudio = FALSE
    /\ apiKeySelected = TRUE
    /\ checkPending = FALSE
    /\ logoDescription = ""
    /\ animationPrompt = "wink"
    /\ aspectRatio \in AspectRatios
    /\ logoImageBase64 = Str(<< "QQ==" >>)
    /\ generatedVideoUrl = Null
    /\ isGeneratingLogo = FALSE
    /\ isGeneratingVideo = FALSE
    /\ videoStatus = ""
    /\ error = Null
    /\ selectPending = 0
    /\ uploads = << >>
    /\ logoTasks = << >>
    /\ videoTasks = << >>
    /\ pollBudget = MaxClientPolls
    /\ last = Step("handleImageUploadResumes", "resolved")
    /\ out = << >>

NextClient ==
    \/ handleGenerateVideo
    \/ \E i \in 1..Len(videoTasks) :
           \E outcome \in OperationOutcomes(videoTasks[i]) :
               generateVideosSettles(i, outcome)
    \/ \E i \in 1..Len(videoTasks) : pollTimerFires(i)
    \/ \E i \in 1..Len(videoTasks) :
           \E outcome \in OperationOutcomes(videoTasks[i]) :
               getVideosOperationSettles(i, outcome)
    \/ \E i \in 1..Len(videoTasks), outcome \in FetchOutcomes :
           fetchSettles(i, outcome)
    \/ \E i \in 1..Len(videoTasks) :
           \E outcome \in BlobOutcomes(videoTasks[i]) : blobSettles(i, outcome)

SpecClient == InitClient /\ [][NextClient]_vars

\* the steps of a started run: a request returns or fails, the timer fires
VideoTaskProgress ==
    \/ \E i \in 1..Len(videoTasks) :
           \E outcome \in OperationOutcomes(videoTasks[i]) :
               generateVideosSettles(i, outcome)
    \/ \E i \in 1..Len(videoTasks) : pollTimerFires(i)
    \/ \E i \in 1..Len(videoTasks) :
           \E outcome \in OperationOutcomes(videoTasks[i]) :
               getVideosOperationSettles(i, outcome)
    \/ \E i \in 1..Len(videoTasks), outcome \in FetchOutcomes :
           fetchSettles(i, outcome)
    \/ \E i \in 1..Len(videoTasks) :
           \E outcome \in BlobOutcomes(videoTasks[i]) : blobSettles(i, outcome)

\* the event loop runs every continuation that is ready: each request
\* eventually returns or fails, each timer eventually fires, and the
\* operation reports done after pollBudget polls at the latest
SpecClientFair == SpecClient /\ WF_vars(VideoTaskProgress)

(* ------------------------------- stages ------------------------------- *)
\* what the results column shows, from its render conditions
LogoReady ==
    Truthy(logoImageBase64) /\ ~isGeneratingVideo /\ ~Truthy(generatedVideoUrl)

(* ------------------------------- claims ------------------------------- *)
\* C1: at most one of the two busy flags is true, and a logo-generation
\* task and a video-generation task are never pending together.
C1_OneTaskAtATime ==
    /\ ~(isGeneratingLogo /\ isGeneratingVideo)
    /\ ~(Len(logoTasks) > 0 /\ Len(videoTasks) > 0)

\* C2: whenever the Video Artifact is present, the Logo Artifact is present.
C2_VideoNeedsLogo == Truthy(generatedVideoUrl) => Truthy(logoImageBase64)

\* C3: generate-logo with an empty description, and start-animation with no
\* logo or an empty prompt, set a validation error, issue no request, start
\* no task and leave the artifacts, the busy flags and the credential state
\* as they were.
ValidationErrors ==
    { Str(<< "Please enter a description for your logo." >>),
      Str(<< "Please generate or upload a logo first." >>),
      Str(<< "Please enter a prompt for the animation." >>) }
C3_GuardViolation ==
    [][ ( \/ handleGenerateLogo /\ logoDescription = ""
          \/ handleGenerateVideo
               /\ (~Truthy(logoImageBase64) \/ animationPrompt = "") )
        => /\ error' \in ValidationErrors
           /\ out' = << >>
           /\ UNCHANGED << logoImageBase64, generatedVideoUrl,
                           isGeneratingLogo, isGeneratingVideo,
                           apiKeySelected, uploads, logoTasks, videoTasks >>
      ]_vars
C3_Witness ==
    /\ last = Refused("handleGenerateVideo")
    /\ error = Str(<< "Please enter a prompt for the animation." >>)
    /\ Truthy(logoImageBase64)
    /\ Truthy(generatedVideoUrl)

\* C4: when the file read of an upload fails, the upload leaves the Logo
\* Artifact and the Video Artifact as they were before it: neither its
\* start nor its failure changes them.
C4_FailedUploadKeepsArtifacts ==
    [][ ( \/ \E file \in Files :
                 ~fileToBase64(file).ok /\ handleImageUpload(file)
          \/ \E i \in 1..Len(uploads) :
                 ~fileToBase64(uploads[i].file).ok
                     /\ handleImageUploadResumes(i) )
        => UNCHANGED << logoImageBase64, generatedVideoUrl >>
      ]_vars

\* a video task ends because a request was rejected with a message that
\* contains "Requested entity was not found"
CredentialRejected(i) ==
    \E t \in Thrown :
        /\ t.isError /\ Includes(t.message, NotFoundMsg)
        /\ \/ generateVideosSettles(i, Rejected(t))
           \/ getVideosOperationSettles(i, Rejected(t))
           \/ fetchSettles(i, Rejected(t))
           \/ blobSettles(i, Rejected(t))
CredentialHint ==
    Str(<< "API Key not found or invalid. ", "Please re-select your API Key." >>)

\* C5 as stated: after a credential-rejected video task the credential is
\* absent, the busy flag false, the error the re-selection hint, and the
\* Video Artifact is what it was before the animation was started.
C5_VideoAsBeforeStart ==
    [][ \A i \in 1..Len(videoTasks) :
          CredentialRejected(i)
          => /\ apiKeySelected' = FALSE
             /\ isGeneratingVideo' = FALSE
             /\ error' = CredentialHint
             /\ generatedVideoUrl' = videoTasks[i].started.generatedVideoUrl
      ]_vars
\* C5 as amended: after a credential-rejected video task the credential is
\* absent, the busy flag false, the error the re-selection hint, and the
\* Video Artifact is absent (the start of the animation cleared it).
C5_CredentialRejected ==
    [][ \A i \in 1..Len(videoTasks) :
          CredentialRejected(i)
          => /\ apiKeySelected' = FALSE
             /\ isGeneratingVideo' = FALSE
             /\ error' = CredentialHint
             /\ generatedVideoUrl' = Null
      ]_vars
C5_Witness ==
    /\ last.result = "credential"
    /\ ~apiKeySelected
    /\ error = CredentialHint
    /\ generatedVideoUrl = Null
    /\ ~isGeneratingVideo

\* C6: accepting a new logo (generate-logo with a description, or the upload
\* of a selected file) resets the Video Artifact to absent and clears the
\* error, whatever they were.
C6_NewLogoResets ==
    [][ ( \/ handleGenerateLogo /\ logoDescription # ""
          \/ \E file \in Files : handleImageUpload(file) )
        => generatedVideoUrl' = Null /\ error' = Null
      ]_vars
C6_Witness ==
    /\ last.op = "handleImageUpload" /\ last.result = "started"
    /\ last.hadVideo /\ last.hadError
    /\ generatedVideoUrl = Null /\ error = Null

\* C7 as stated: a run that has polled N times has called the status
\* callback exactly N+1 times, the k-th call with element k mod L of the list.
C7_StatusCallsAsStated ==
    \A i \in 1..Len(videoTasks) :
        LET task == videoTasks[i]
        IN  /\ Len(task.statuses) = task.polls + 1
            /\ \A k \in 0..task.polls :
                   task.statuses[k + 1]
                       = loadingMessages[(k % Len(loadingMessages)) + 1]
\* C7 as amended: a run that has polled N times has called the status
\* callback N+1 times with list messages, the k-th with element k mod L, and
\* once more, with the fetching message, when the operation reported done
\* with a resource locator (N+2 calls in total).
C7_StatusCalls ==
    \A i \in 1..Len(videoTasks) :
        LET task == videoTasks[i]
            fetching == task.pc \in { "fetch", "blob" }
        IN  /\ Len(task.statuses) = task.polls + 1 + (IF fetching THEN 1 ELSE 0)
            /\ \A k \in 0..task.polls :
                   task.statuses[k + 1]
                       = loadingMessages[(k % Len(loadingMessages)) + 1]
            /\ fetching => task.statuses[task.polls + 2] = FetchingMessage
C7_Witness ==
    \E i \in 1..Len(videoTasks) :
        /\ videoTasks[i].polls > Len(loadingMessages)
        /\ videoTasks[i].pc = "blob"

\* C8: when generateLogoImage returns for a response of the image service,
\* the base64 string it returns (the new Logo Artifact) is not empty.
C8_NoEmptySuccess ==
    (last.op = "handleGenerateLogoResumes" /\ last.result = "resolved")
        => Truthy(logoImageBase64)

\* a video task learns that its operation is done without a resource locator
DoneWithoutLocator(i) ==
    \E o \in Operations :
        /\ o.done /\ ~Truthy(o.uri)
        /\ \/ generateVideosSettles(i, Resolved(o))
           \/ getVideosOperationSettles(i, Resolved(o))

\* C9: when the operation is done without a resource locator, no fetching
\* status is emitted and nothing is fetched, and the controller ends in
\* stage LogoReady with the Video Artifact absent, the video busy flag false
\* and the error set.
C9_NoLocatorEndsInLogoReady ==
    [][ \A i \in 1..Len(videoTasks) :
          DoneWithoutLocator(i)
          => /\ out' = << >>
             /\ LogoReady'
             /\ generatedVideoUrl' = Null
             /\ isGeneratingVideo' = FALSE
             /\ error' # Null
      ]_vars

\* steps that start a workflow operation, and steps that send a request to
\* the image service or to the video service
Initiates ==
    \/ handleGenerateLogo
    \/ handleGenerateVideo
    \/ \E file \in FileChoices : handleImageUpload(file)
SubmitsRequest ==
    \/ handleGenerateLogo /\ logoDescription # ""
    \/ handleGenerateVideo /\ Truthy(logoImageBase64) /\ animationPrompt # ""
PollsOperation == \E i \in 1..Len(videoTasks) : pollTimerFires(i)

\* C10 as stated: while the credential is absent no operation is initiated
\* and no request goes to the image or video service.
C10_NothingWhileGated ==
    [][ (Initiates \/ SubmitsRequest \/ PollsOperation) => apiKeySelected
      ]_vars
\* C10 as amended: while the credential is absent no operation is initiated,
\* so no image request and no video submission is sent; a video task that
\* is already running goes on polling.
C10_NoInitiationWhileGated ==
    [][ (Initiates \/ SubmitsRequest) => apiKeySelected ]_vars
C10_Witness ==
    /\ ~apiKeySelected
    /\ last.op = "pollTimerFires"
    /\ Len(out) = 2 /\ out[2].what = "getVideosOperation"
    /\ Len(videoTasks) = 1

\* a logo task ends because generateLogoImage failed
LogoFails(i) ==
    \E outcome \in LogoOutcomes :
        ~outcome.ok /\ handleGenerateLogoResumes(i, outcome)
\* a video task ends because generateAnimatedVideo failed
VideoFails(i) ==
    /\ \/ \E outcome \in OperationOutcomes(videoTasks[i]) :
              \/ generateVideosSettles(i, outcome)
              \/ getVideosOperationSettles(i, outcome)
       \/ \E outcome \in FetchOutcomes : fetchSettles(i, outcome)
       \/ \E outcome \in BlobOutcomes(videoTasks[i]) : blobSettles(i, outcome)
    /\ last'.result \in { "rejected", "credential" }

\* C11: a failed logo generation leaves the logo busy flag false, the error
\* set and a Logo Artifact that was present before the task started still
\* present; a failed animation leaves the video busy flag false, the error
\* set and the workflow in stage LogoReady.
C11_FailureRestoresStage ==
    [][ /\ \A i \in 1..Len(logoTasks) :
              LogoFails(i)
              => /\ isGeneratingLogo' = FALSE
                 /\ error' # Null
                 /\ logoTasks[i].started.hadLogo => Truthy(logoImageBase64')
        /\ \A i \in 1..Len(videoTasks) :
              VideoFails(i)
              => /\ isGeneratingVideo' = FALSE
                 /\ error' # Null
                 /\ LogoReady'
      ]_vars

\* the video-generation requests among the events of a step
SubmittedVideoRequests(events) ==
    { k \in 1..Len(events) :
        events[k].ev = "request" /\ events[k].what = "generateVideos" }

\* C12: start-animation with a logo and a prompt submits one video request,
\* and its aspect parameter is the aspect ratio selected at that moment.
C12_AspectAsSelected ==
    [][ (handleGenerateVideo /\ Truthy(logoImageBase64) /\ animationPrompt # "")
        => /\ Cardinality(SubmittedVideoRequests(out')) = 1
           /\ \A k \in SubmittedVideoRequests(out') :
                  out'[k].arg.config.aspectRatio = aspectRatio
      ]_vars
C12_Witness ==
    /\ last.op = "handleGenerateVideo" /\ last.result = "started"
    /\ aspectRatio = "9:16"
    /\ \E k \in SubmittedVideoRequests(out) :
           out[k].arg.config.aspectRatio = "9:16"

\* C13: within a run the polling is sequential.  A poll is issued only when
\* the previous response was received with done = false and the wait is
\* over, in a step that advances the status once and sends one poll; while
\* a poll is outstanding or the run waits, the last response said not done,
\* so no poll follows a response that reported done.
C13_SequentialPolling ==
    [][ \A i \in 1..Len(videoTasks) :
          /\ pollTimerFires(i)
              => /\ videoTasks[i].operation # Undefined
                 /\ ~videoTasks[i].operation.done
                 /\ videoTasks[i].pc = "setTimeout"
                 /\ out' = << Status(loadingMessages[
                                 NextMessageIndex(videoTasks[i].messageIndex) + 1]),
                              Request("getVideosOperation", Undefined) >>
                 /\ videoTasks'[i].pc = "getVideosOperation"
                 /\ videoTasks'[i].polls = videoTasks[i].polls + 1
          /\ ( /\ Len(videoTasks') >= i
               /\ videoTasks'[i].pc \in { "setTimeout", "getVideosOperation" } )
              => /\ videoTasks'[i].operation # Undefined
                 /\ ~videoTasks'[i].operation.done
      ]_vars
C13_Witness ==
    \E i \in 1..Len(videoTasks) :
        /\ videoTasks[i].polls >= 2
        /\ videoTasks[i].pc = "getVideosOperation"
        /\ last.op = "pollTimerFires"

\* C14: a run calls the status callback only after its submit request has
\* returned the operation handle: while generateVideos is outstanding, no
\* status was emitted.
C14_SubmitThenStatus ==
    \A i \in 1..Len(videoTasks) :
        ( videoTasks[i].pc = "generateVideos"
          \/ videoTasks[i].operation = Undefined )
            => videoTasks[i].statuses = << >> /\ videoStatus = ""

\* the error the controller shows for a fetch response that is not ok
DownloadError(videoResponse) ==
    Str(<< "Video generation failed: ", "Failed to download video: " >>
            \o videoResponse.statusText)

\* C15: the Video Artifact becomes present only when a video task returns
\* whose operation reported done with a resource locator and whose fetch of
\* that locator was successful; a fetch response that is not successful
\* ends the task with the download error and the Video Artifact absent.
C15_VideoOnlyFromFetchedResult ==
    [][ /\ (Truthy(generatedVideoUrl') /\ generatedVideoUrl' # generatedVideoUrl)
            => \E i \in 1..Len(videoTasks) :
                   /\ blobSettles(i, Resolved(RenderedBlob(videoTasks[i])))
                   /\ videoTasks[i].operation # Undefined
                   /\ videoTasks[i].operation.done
                   /\ Truthy(videoTasks[i].operation.uri)
                   /\ videoTasks[i].downloadLink = videoTasks[i].operation.uri
                   /\ videoTasks[i].videoResponse # Undefined
                   /\ videoTasks[i].videoResponse.ok
        /\ \A i \in 1..Len(videoTasks) :
              \A r \in FetchResponses :
                  (~r.ok /\ fetchSettles(i, Resolved(r)))
                  => /\ error' = DownloadError(r)
                     /\ generatedVideoUrl' = Null
                     /\ isGeneratingVideo' = FALSE
                     /\ Len(videoTasks') = Len(videoTasks) - 1
      ]_vars
C15_Witness ==
    /\ last.op = "blobSettles" /\ last.result = "resolved"
    /\ Truthy(generatedVideoUrl)
    /\ error = Null

\* a logo task ends because the image request was rejected with a message
\* that contains "Requested entity was not found"
LogoCredentialRejected(i) ==
    \E t \in Thrown :
        /\ t.isError /\ Includes(t.message, NotFoundMsg)
        /\ handleGenerateLogoResumes(i, Rejected(t))

\* C16: whenever a remote call of logo generation or of video generation is
\* rejected with an error of the "Requested entity was not found" class,
\* the Credential State is absent afterwards.
C16_CredentialErrorShowsGate ==
    [][ /\ \A i \in 1..Len(logoTasks) :
              LogoCredentialRejected(i) => apiKeySelected' = FALSE
        /\ \A i \in 1..Len(videoTasks) :
              CredentialRejected(i) => apiKeySelected' = FALSE
      ]_vars

\* C17: every started animation eventually ends with the video busy flag
\* false and the status text empty, and with the Video Artifact or the
\* error set.
C17_TaskEnds ==
    isGeneratingVideo
        ~> ( /\ ~isGeneratingVideo
             /\ videoStatus = ""
             /\ (Truthy(generatedVideoUrl) \/ error # Null) )
C17_Witness ==
    /\ last.op = "getVideosOperationSettles" /\ last.result = "rejected"
    /\ ~isGeneratingVideo
    /\ videoStatus = ""
    /\ error # Null
    /\ videoTasks = << >>

\* C18: whenever the Video Artifact is present, it was rendered from the
\* Logo Artifact that is currently held.
C18_VideoOfCurrentLogo ==
    Truthy(generatedVideoUrl)
        => generatedVideoUrl.blob.image = logoImageBase64

\* C19: from every state in which the credential is absent, performing the
\* select-credential action eventually marks the credential present.
C19_GateCanBePassed == (~apiKeySelected) ~> apiKeySelected

\* C20: the number of started and not yet finished runs of
\* generateAnimatedVideo is 0 or 1, it is 1 exactly when the video busy flag
\* is true, and the status text is empty whenever the busy flag is false.
C20_OneVideoTask ==
    /\ Len(videoTasks) \in { 0, 1 }
    /\ (Len(videoTasks) = 1) <=> isGeneratingVideo
    /\ ~isGeneratingVideo => videoStatus = ""
C20_Witness ==
    /\ Len(videoTasks) = 1
    /\ isGeneratingVideo
    /\ videoTasks[1].polls >= 1
    /\ videoStatus = loadingMessages[2]
    /\ Truthy(logoImageBase64) /\ animationPrompt # ""

=============================================================================
